---- MODULE Spec2Model ----
(***************************************************************************)
(* A model of wrappy/base.py: the classes Log, Notify and BotBase.         *)
(*                                                                         *)
(* One process holds NumBots object slots.  Each slot is an instance of    *)
(* BotBase (which is a Notify, which is a Log).  The process-wide state is *)
(* the logging module's registry of named loggers, the standard error      *)
(* stream, the wall clock and the order-history files on disk.             *)
(*                                                                         *)
(* Every handler is one action.  What a handler did, in order, is kept in  *)
(* lastCall: the events it produced (prints, log records, HTTP posts,      *)
(* file opens, hook calls) and how it ended (returned or raised).          *)
(***************************************************************************)
EXTENDS Integers, Sequences, FiniteSets, TLC

VARIABLES
    bot,        \* [Bots -> object]: the attributes of every instance
    loggers,    \* logging's registry: logger name -> [level, handlers]
    stderr,     \* the lines printed to sys.stderr
    clock,      \* the wall clock, in days
    disk,       \* order-history files on disk: path -> sequence of rows
    lastCall    \* the most recent handler invocation

vars == <<bot, loggers, stderr, clock, disk, lastCall>>

---------------------------------------------------------------------------
(* Bounds *)

NumBots == 2
MaxDay == 2
MaxWrites == 3

Bots == 1 .. NumBots

---------------------------------------------------------------------------
(* Python values *)

None == "None"          \* Python None, JSON null
Unset == "<unset>"      \* an attribute that was never assigned
Absent == "<absent>"    \* a key that is not in the configuration mapping

Keys == {"exchange_name", "bot_name", "log_level", "log_dir",
         "line_notify_token", "discordWebhook"}

\* The values a configuration file may give to a key.
KeyValues(k) ==
    CASE k = "exchange_name" -> {"Acme"}
      [] k = "bot_name" -> {"Trader"}
      [] k = "log_level" -> {"INFO"}
      [] k = "log_dir" -> {"", "logs"}
      [] k = "line_notify_token" -> {"tok"}
      [] k = "discordWebhook" -> {"https://discord/x", None}

NoConfig == [k \in Keys |-> Absent]

\* The JSON objects that set (or leave out) the keys of ks and leave out
\* every other key.
Configs(ks) ==
    {c \in [Keys -> UNION {KeyValues(k) : k \in Keys} \cup {Absent}] :
        \A k \in Keys : /\ c[k] # Absent => c[k] \in KeyValues(k)
                        /\ k \notin ks => c[k] = Absent}

\* What may be found at the path given to the constructor.
Files(ks) ==
    {[kind |-> "missing", config |-> NoConfig],
     [kind |-> "invalid", config |-> NoConfig]}
    \cup {[kind |-> "json", config |-> c] : c \in Configs(ks)}

OptionalKeys == {"exchange_name", "bot_name", "log_level", "log_dir"}
ChannelKeys == {"line_notify_token", "discordWebhook"}

\* Python truthiness of a string-or-None value.
Truthy(v) == v # None /\ v # ""

---------------------------------------------------------------------------
(* Objects *)

\* An instance before its constructor ran: no attribute is assigned.
\* attrs is the set of assigned attribute names; raised is the exception
\* the constructor ended with (None when it returned).
Blank ==
    [raised |-> None, attrs |-> {}, config |-> NoConfig,
     logger |-> Unset, exchange_name |-> Unset, bot_name |-> Unset,
     log_level |-> Unset, log_dir |-> Unset,
     line_notify_token |-> Unset, discordWebhook |-> Unset,
     stop_flag |-> FALSE, order_history_dir |-> Unset,
     order_history_file_name_base |-> Unset,
     order_history_files |-> <<>>,
     created |-> <<>>, written |-> <<>>]

\* One event of a handler invocation.
Ev(k, a) == [k |-> k, a |-> a]

NoCall == [op |-> "none", self |-> 0, args |-> <<>>, events |-> <<>>,
           outcome |-> "none"]

Call(op, self, args, events, outcome) ==
    [op |-> op, self |-> self, args |-> args, events |-> events,
     outcome |-> outcome]

\* config[key], or the default on KeyError.
GetOr(config, key, default) ==
    IF config[key] = Absent THEN default ELSE config[key]

---------------------------------------------------------------------------
(* class Log *)

\* Mutant of Log__init__diagnostic: the ValueError handler prints nothing.
Log__init__diagnosticSilent(file) ==
    CASE file.kind = "missing" -> <<"[ERROR] Config file is not found.">>
      [] OTHER -> <<>>

\* Log.__init__, lines 13-20: what is printed to sys.stderr.
Log__init__diagnostic(file) ==
    CASE file.kind = "missing" -> <<"[ERROR] Config file is not found.">>
      [] file.kind = "invalid" -> <<"[ERROR] Json file is invalid.">>
      [] OTHER -> <<>>

\* Log.__init__, lines 13-20: the exception json.load(open(path)) ends with.
Log__init__raises(file) ==
    CASE file.kind = "missing" -> "FileNotFoundError"
      [] file.kind = "invalid" -> "ValueError"
      [] OTHER -> None

\* Mutant of Log__init__: the KeyError handler of log_level assigns the
\* default to log_dir.
Log__init__LevelSlip(self, file) ==
    IF Log__init__raises(file) # None
    THEN [self EXCEPT !.raised = Log__init__raises(file)]
    ELSE [self EXCEPT
            !.attrs = @ \cup {"apis", "config", "logger", "exchange_name",
                              "bot_name", "log_level", "log_dir"},
            !.config = file.config,
            !.logger = None,
            !.exchange_name = GetOr(file.config, "exchange_name", "Exchange"),
            !.bot_name = GetOr(file.config, "bot_name", "Bot"),
            !.log_level = GetOr(file.config, "log_level", "log"),
            !.log_dir = GetOr(file.config, "log_dir", "log")]

\* Log.__init__, lines 21-39: the attributes after a successful load.
Log__init__(self, file) ==
    IF Log__init__raises(file) # None
    THEN [self EXCEPT !.raised = Log__init__raises(file)]
    ELSE [self EXCEPT
            !.attrs = @ \cup {"apis", "config", "logger", "exchange_name",
                              "bot_name", "log_level", "log_dir"},
            !.config = file.config,
            !.logger = None,
            !.exchange_name = GetOr(file.config, "exchange_name", "Exchange"),
            !.bot_name = GetOr(file.config, "bot_name", "Bot"),
            !.log_level = GetOr(file.config, "log_level", "DEBUG"),
            !.log_dir = GetOr(file.config, "log_dir", "log")]

\* The name of the instance's logger, line 46.
LoggerName(self) == self.exchange_name \o "_" \o self.bot_name

LoggerNames ==
    {e \o "_" \o b : e \in KeyValues("exchange_name") \cup {"Exchange"},
                     b \in KeyValues("bot_name") \cup {"Bot"}}

StreamHandler == [type |-> "StreamHandler", filename |-> None]

RotatingFileHandler(filename) ==
    [type |-> "RotatingFileHandler", filename |-> filename]

\* A logger of the registry that nobody configured yet.
NewLogger == [level |-> "NOTSET", handlers |-> <<>>]

\* Logger.hasHandlers(): the process attaches handlers only through
\* _initialize_logger, so the root logger has none and the answer is that
\* of the named logger itself.
hasHandlers(lg) == Len(lg.handlers) > 0

\* _initialize_logger, lines 48-66: the handlers attached to logger lg.
AttachHandlers(self, lg) ==
    IF hasHandlers(lg) THEN lg.handlers
    ELSE IF Truthy(self.log_dir)
    THEN <<StreamHandler,
           RotatingFileHandler(self.log_dir \o "/" \o LoggerName(self) \o ".log")>>
    ELSE <<StreamHandler>>

\* _initialize_logger, lines 45-47: the registry after the call.
InitializeLoggerRegistry(self, reg) ==
    IF self.logger # None THEN reg
    ELSE [reg EXCEPT ![LoggerName(self)] =
            [level |-> self.log_level,
             handlers |-> AttachHandlers(self, reg[LoggerName(self)])]]

\* _initialize_logger, lines 45-46: the instance after the call.
InitializeLoggerSelf(self) ==
    IF self.logger # None THEN self
    ELSE [self EXCEPT !.logger = LoggerName(self)]

---------------------------------------------------------------------------
(* class Notify *)

\* Notify.__init__, lines 106-119 (the registry side is
\* InitializeLoggerRegistry).
Notify__init__(self, file) ==
    LET s1 == Log__init__(self, file)
        s2 == InitializeLoggerSelf(s1)
    IN  IF s1.raised # None THEN s1
        ELSE [s2 EXCEPT
                !.attrs = @ \cup {"discordWebhook"} \cup
                          (IF file.config["line_notify_token"] = Absent
                           THEN {} ELSE {"line_notify_token"}),
                !.line_notify_token =
                    GetOr(file.config, "line_notify_token", Unset),
                !.discordWebhook = GetOr(file.config, "discordWebhook", None)]

LineEndpoint == "https://notify-api.line.me/api/notify"

\* What the environment does to one send: whether open(fileName, "rb")
\* succeeds and whether requests.post returns or raises.
Envs == [open : BOOLEAN, post : BOOLEAN]

Result(events, outcome) == [events |-> events, outcome |-> outcome]

\* Mutant of lineNotify: the attachment branch logs the message after a
\* successful post, like the branch without attachment.
lineNotifyLogsAttachment(self, message, fileName, env) ==
    IF "line_notify_token" \notin self.attrs
    THEN Result(<<>>, "AttributeError")
    ELSE IF fileName = None
    THEN IF env.post
         THEN Result(<<Ev("post", LineEndpoint), Ev("log_info", message)>>,
                     "returned")
         ELSE Result(<<Ev("post", LineEndpoint),
                       Ev("log_error", "ConnectionError")>>,
                     "ConnectionError")
    ELSE IF ~env.open
         THEN Result(<<Ev("open", fileName), Ev("log_error", "OSError")>>,
                     "OSError")
         ELSE IF env.post
         THEN Result(<<Ev("open", fileName), Ev("post", LineEndpoint),
                       Ev("log_info", message)>>,
                     "returned")
         ELSE Result(<<Ev("open", fileName), Ev("post", LineEndpoint),
                       Ev("log_error", "ConnectionError")>>,
                     "ConnectionError")

\* lineNotify, lines 121-137.  Reading self.line_notify_token (line 123)
\* raises AttributeError when the configuration had no token.
lineNotify(self, message, fileName, env) ==
    IF "line_notify_token" \notin self.attrs
    THEN Result(<<>>, "AttributeError")
    ELSE IF fileName = None
    THEN \* lines 125-130
         IF env.post
         THEN Result(<<Ev("post", LineEndpoint), Ev("log_info", message)>>,
                     "returned")
         ELSE Result(<<Ev("post", LineEndpoint),
                       Ev("log_error", "ConnectionError")>>,
                     "ConnectionError")
    ELSE \* lines 132-137
         IF ~env.open
         THEN Result(<<Ev("open", fileName), Ev("log_error", "OSError")>>,
                     "OSError")
         ELSE IF env.post
         THEN Result(<<Ev("open", fileName), Ev("post", LineEndpoint)>>,
                     "returned")
         ELSE Result(<<Ev("open", fileName), Ev("post", LineEndpoint),
                       Ev("log_error", "ConnectionError")>>,
                     "ConnectionError")

\* Mutant of discordNotify: the attachment branch logs a failed post and
\* does not re-raise it.
discordNotifySwallows(self, message, fileName, env) ==
    IF fileName = None
    THEN IF env.post
         THEN Result(<<Ev("post", self.discordWebhook),
                       Ev("log_info", message)>>,
                     "returned")
         ELSE Result(<<Ev("post", self.discordWebhook),
                       Ev("log_error", "ConnectionError")>>,
                     "ConnectionError")
    ELSE IF ~env.open
         THEN Result(<<Ev("open", fileName), Ev("log_error", "OSError")>>,
                     "OSError")
         ELSE IF env.post
         THEN Result(<<Ev("open", fileName), Ev("post", self.discordWebhook)>>,
                     "returned")
         ELSE Result(<<Ev("open", fileName), Ev("post", self.discordWebhook),
                       Ev("log_error", "ConnectionError")>>,
                     "returned")

\* discordNotify, lines 140-155.
discordNotify(self, message, fileName, env) ==
    IF fileName = None
    THEN \* lines 143-148
         IF env.post
         THEN Result(<<Ev("post", self.discordWebhook),
                       Ev("log_info", message)>>,
                     "returned")
         ELSE Result(<<Ev("post", self.discordWebhook),
                       Ev("log_error", "ConnectionError")>>,
                     "ConnectionError")
    ELSE \* lines 150-155
         IF ~env.open
         THEN Result(<<Ev("open", fileName), Ev("log_error", "OSError")>>,
                     "OSError")
         ELSE IF env.post
         THEN Result(<<Ev("open", fileName), Ev("post", self.discordWebhook)>>,
                     "returned")
         ELSE Result(<<Ev("open", fileName), Ev("post", self.discordWebhook),
                       Ev("log_error", "ConnectionError")>>,
                     "ConnectionError")

\* Mutant of statusNotify: the test of the webhook is inverted.
statusNotifyInverted(self, message, fileName, env) ==
    IF self.discordWebhook # None
    THEN lineNotify(self, message, fileName, env)
    ELSE discordNotify(self, message, fileName, env)

\* statusNotify, lines 157-163.
statusNotify(self, message, fileName, env) ==
    IF self.discordWebhook = None
    THEN lineNotify(self, message, fileName, env)
    ELSE discordNotify(self, message, fileName, env)

---------------------------------------------------------------------------
(* class OrderHistory (wrappy/logfile.py) and now_jst_str                  *)
(* (wrappy/time_util.py)                                                   *)

\* now_jst_str("%y%m%d"): the JST calendar day of the clock, as yymmdd.
now_jst_str == ToString(230100 + clock)

\* OrderHistory(full_path, columns): a resource that is not open yet.
OrderHistory(full_path) == [path |-> full_path, is_open |-> FALSE]

HeaderRow == "<header>"

\* OrderHistory.open(): creates the file with its header row.
OrderHistoryOpen(d, path) ==
    IF path \in DOMAIN d THEN d
    ELSE [p \in DOMAIN d \cup {path} |->
            IF p = path THEN <<HeaderRow>> ELSE d[p]]

\* OrderHistory.write_row_by_dict(row) on an open resource: appends a row.
OrderHistoryWriteRow(d, path, row) ==
    [d EXCEPT ![path] = Append(@, row)]

\* OrderHistory.close(): releases the handle; a no-op on a closed resource.
OrderHistoryClose(res) == [res EXCEPT !.is_open = FALSE]

---------------------------------------------------------------------------
(* class BotBase *)

\* BotBase.__init__, lines 167-179.
BotBase__init__(self, file) ==
    LET s == Notify__init__(self, file)
    IN  IF s.raised # None THEN s
        ELSE [s EXCEPT
                !.attrs = @ \cup {"stop_flag", "order_history_dir", "columns",
                                  "order_history_file_name_base",
                                  "order_history_files",
                                  "order_history_file_class"},
                !.stop_flag = FALSE,
                !.order_history_dir = GetOr(file.config, "log_dir", "log"),
                !.order_history_file_name_base =
                    s.exchange_name \o "_" \o s.bot_name \o "_order_history",
                !.order_history_files = <<>>]

\* Mutant of start: the status line is logged before the hook is awaited.
startLogsFirst(self, hook) ==
    CASE hook = "base" ->
            Result(<<Ev("log_info", "Bot started."), Ev("_run_logic", hook)>>,
                   "NotImplementedError")
      [] hook = "raises" ->
            Result(<<Ev("log_info", "Bot started."), Ev("_run_logic", hook)>>,
                   "Exception")
      [] hook = "returns" ->
            Result(<<Ev("log_info", "Bot started."), Ev("_run_logic", hook)>>,
                   "returned")

\* start, lines 182-187, with the behaviour of the instance's _run_logic:
\* "base" is BotBase._run_logic (lines 198-202), "returns" and "raises" are
\* a subclass's hook.
start(self, hook) ==
    CASE hook = "base" ->
            Result(<<Ev("_run_logic", hook)>>, "NotImplementedError")
      [] hook = "raises" ->
            Result(<<Ev("_run_logic", hook)>>, "Exception")
      [] hook = "returns" ->
            Result(<<Ev("_run_logic", hook), Ev("log_info", "Bot started.")>>,
                   "returned")

Hooks == {"base", "raises", "returns"}

\* stop, lines 190-195.
stop(self) == [self EXCEPT !.stop_flag = TRUE]

\* The full path of the order-history file of a day, lines 220-221.
FullPath(self, today_str) ==
    self.order_history_dir \o "/" \o self.order_history_file_name_base
        \o "_" \o today_str \o ".csv"

\* Mutant of get_or_create_order_history_file: the membership test is
\* missing, every call constructs and opens a resource.
get_or_create_always(self, today_str) ==
    [self EXCEPT
        !.order_history_files =
            [d \in DOMAIN @ \cup {today_str} |->
                IF d = today_str
                THEN [OrderHistory(FullPath(self, today_str))
                        EXCEPT !.is_open = TRUE]
                ELSE @[d]],
        !.created = Append(@, today_str)]

\* get_or_create_order_history_file, lines 219-225: the instance after the
\* call.  created lists, in order, the days for which the call constructed
\* and opened a resource.
get_or_create_order_history_file(self, today_str) ==
    IF today_str \notin DOMAIN self.order_history_files
    THEN [self EXCEPT
            !.order_history_files =
                [d \in DOMAIN @ \cup {today_str} |->
                    IF d = today_str
                    THEN [OrderHistory(FullPath(self, today_str))
                            EXCEPT !.is_open = TRUE]
                    ELSE @[d]],
            !.created = Append(@, today_str)]
    ELSE self

\* Mutant of close_order_history_files: it closes the file of the current
\* day, obtained from get_or_create_order_history_file, not every file.
close_today_only(self) ==
    LET s == get_or_create_order_history_file(self, now_jst_str)
    IN  [s EXCEPT !.order_history_files[now_jst_str] = OrderHistoryClose(@)]

\* close_order_history_files, lines 228-233.
close_order_history_files(self) ==
    [self EXCEPT !.order_history_files =
        [d \in DOMAIN @ |-> OrderHistoryClose(@[d])]]

---------------------------------------------------------------------------
(* Inputs *)

Messages == {"hello"}
FileNames == {None, "chart.png"}
Rows == {"buy,100", "sell,101"}
HistoryKeys == {"exchange_name", "log_dir"}

\* The constructor of the instance returned.
Ready(b) == "order_history_files" \in bot[b].attrs

\* No other instance exists in the process.
Alone(b) == \A c \in Bots \ {b} : bot[c] = Blank

---------------------------------------------------------------------------
(* Actions *)

Init ==
    /\ bot = [b \in Bots |-> Blank]
    /\ loggers = [n \in LoggerNames |-> NewLogger]
    /\ stderr = <<>>
    /\ clock = 1
    /\ disk = <<>>
    /\ lastCall = NoCall

\* BotBase(path): the constructor chain Log, Notify, BotBase on a new
\* instance.
Construct(b, file) ==
    /\ bot[b] = Blank
    /\ bot' = [bot EXCEPT ![b] = BotBase__init__(Blank, file)]
    /\ loggers' = IF Log__init__raises(file) # None THEN loggers
                  ELSE InitializeLoggerRegistry(Log__init__(Blank, file),
                                                loggers)
    /\ stderr' = stderr \o Log__init__diagnostic(file)
    /\ lastCall' = Call("__init__", b, <<file.kind>>,
                        [i \in 1 .. Len(Log__init__diagnostic(file)) |->
                            Ev("print", Log__init__diagnostic(file)[i])],
                        IF Log__init__raises(file) # None
                        THEN Log__init__raises(file) ELSE "returned")
    /\ UNCHANGED <<clock, disk>>

\* A further call of _initialize_logger on a constructed instance.
InitializeLogger(b) ==
    /\ "logger" \in bot[b].attrs
    /\ bot' = [bot EXCEPT ![b] = InitializeLoggerSelf(bot[b])]
    /\ loggers' = InitializeLoggerRegistry(bot[b], loggers)
    /\ lastCall' = Call("_initialize_logger", b, <<>>, <<>>, "returned")
    /\ UNCHANGED <<stderr, clock, disk>>

StatusNotify(b, message, fileName, env) ==
    /\ Ready(b)
    /\ LET r == statusNotify(bot[b], message, fileName, env)
       IN  lastCall' = Call("statusNotify", b, <<message, fileName, env>>,
                            r.events, r.outcome)
    /\ UNCHANGED <<bot, loggers, stderr, clock, disk>>

Start(b, hook) ==
    /\ Ready(b)
    /\ LET r == start(bot[b], hook)
       IN  lastCall' = Call("start", b, <<hook>>, r.events, r.outcome)
    /\ UNCHANGED <<bot, loggers, stderr, clock, disk>>

Stop(b) ==
    /\ Ready(b)
    /\ bot' = [bot EXCEPT ![b] = stop(bot[b])]
    /\ lastCall' = Call("stop", b, <<>>,
                        <<Ev("log_info", "Logic threads has been stopped.")>>,
                        "returned")
    /\ UNCHANGED <<loggers, stderr, clock, disk>>

\* write_order_history, lines 205-210.  Writing a row to a closed resource
\* raises and writes nothing.
WriteOrderHistory(b, row) ==
    /\ Ready(b)
    /\ Len(bot[b].written) < MaxWrites
    /\ LET today == now_jst_str
           isNew == today \notin DOMAIN bot[b].order_history_files
           s == get_or_create_order_history_file(bot[b], today)
           res == s.order_history_files[today]
           opened == IF Len(s.created) > Len(bot[b].created)
                     THEN OrderHistoryOpen(disk, res.path) ELSE disk
       IN  /\ bot' = [bot EXCEPT ![b] =
                        [s EXCEPT !.written =
                            Append(@, [day |-> today, row |-> row])]]
           /\ disk' = IF res.is_open
                      THEN OrderHistoryWriteRow(opened, res.path, row)
                      ELSE opened
           /\ lastCall' =
                Call("write_order_history", b, <<today, row>>,
                     (IF Len(s.created) > Len(bot[b].created)
                      THEN <<Ev("construct", res.path), Ev("open", res.path)>>
                      ELSE <<>>)
                     \o <<Ev(IF res.is_open THEN "write_row"
                             ELSE "write_row_closed", res.path)>>,
                     IF res.is_open THEN "returned" ELSE "ValueError")
    /\ UNCHANGED <<loggers, stderr, clock>>

\* close_order_history_files, lines 228-233.  The events name every
\* resource close() was called on, and whether it was still open.
CloseOrderHistoryFiles(b) ==
    /\ Ready(b)
    /\ bot' = [bot EXCEPT ![b] = close_order_history_files(bot[b])]
    /\ lastCall' =
        Call("close_order_history_files", b, <<>>,
             [i \in 1 .. Len(bot[b].created) |->
                LET res == bot[b].order_history_files[bot[b].created[i]]
                IN  Ev(IF res.is_open THEN "close" ELSE "close_closed",
                       res.path)],
             "returned")
    /\ UNCHANGED <<loggers, stderr, clock, disk>>

\* Midnight in JST.
Tick ==
    /\ clock < MaxDay
    /\ clock' = clock + 1
    /\ UNCHANGED <<bot, loggers, stderr, disk, lastCall>>

---------------------------------------------------------------------------
(* Specifications *)

\* Construction and logger initialization.
NextConfig ==
    \/ \E b \in Bots, file \in Files(OptionalKeys) : Construct(b, file)
    \/ \E b \in Bots : InitializeLogger(b)

SpecConfig == Init /\ [][NextConfig]_vars

\* Notification, start and stop.
NextNotify ==
    \/ \E b \in Bots, file \in Files(ChannelKeys) : Construct(b, file)
    \/ \E b \in Bots, message \in Messages, fileName \in FileNames,
          env \in Envs : StatusNotify(b, message, fileName, env)
    \/ \E b \in Bots, hook \in Hooks : Start(b, hook)
    \/ \E b \in Bots : Stop(b)

SpecNotify == Init /\ [][NextNotify]_vars

\* Order history of the one bot instance of a process: writes only.
NextWrite ==
    \/ \E b \in Bots, file \in Files(HistoryKeys) :
          Alone(b) /\ Construct(b, file)
    \/ \E b \in Bots, row \in Rows : WriteOrderHistory(b, row)
    \/ Tick

SpecWrite == Init /\ [][NextWrite]_vars

\* Order history of the one bot instance of a process: writes and closes.
NextHistory ==
    \/ NextWrite
    \/ \E b \in Bots : CloseOrderHistoryFiles(b)

SpecHistory == Init /\ [][NextHistory]_vars

\* The whole program.
Next ==
    \/ \E b \in Bots, file \in Files(Keys) : Construct(b, file)
    \/ \E b \in Bots : InitializeLogger(b)
    \/ \E b \in Bots, message \in Messages, fileName \in FileNames,
          env \in Envs : StatusNotify(b, message, fileName, env)
    \/ \E b \in Bots, hook \in Hooks : Start(b, hook)
    \/ \E b \in Bots : Stop(b)
    \/ \E b \in Bots, row \in Rows : WriteOrderHistory(b, row)
    \/ \E b \in Bots : CloseOrderHistoryFiles(b)
    \/ Tick

Spec == Init /\ [][Next]_vars

---------------------------------------------------------------------------
(* Properties *)

KindCount(events, k) == Len(SelectSeq(events, LAMBDA e : e.k = k))

\* The position of the first event of kind k, 0 when there is none.
Position(events, k) ==
    IF \E i \in 1 .. Len(events) : events[i].k = k
    THEN CHOOSE i \in 1 .. Len(events) :
            /\ events[i].k = k
            /\ \A j \in 1 .. (i - 1) : events[j].k # k
    ELSE 0

PostsOf(events) == SelectSeq(events, LAMBDA e : e.k = "post")

IsNotify == lastCall.op = "statusNotify"

\* The instance the last call was made on.
Caller == bot[lastCall.self]

\* A webhook is configured, or none is and a LINE token is set.
ChannelConfigured ==
    \/ Caller.discordWebhook # None
    \/ "line_notify_token" \in Caller.attrs

\* The endpoint the configuration selects.
SelectedUrl ==
    IF Caller.discordWebhook # None THEN Caller.discordWebhook
    ELSE LineEndpoint

\* The attachment of the last statusNotify call could not be opened.
OpenFailed == lastCall.args[2] # None /\ ~lastCall.args[3].open

\* The send of the last statusNotify call raised.
SendFailed == OpenFailed \/ ~lastCall.args[3].post

\* C1, as claimed: every statusNotify call on an instance with a channel
\* configured issues exactly one POST, to the Discord webhook when one is
\* configured and to the LINE endpoint otherwise.
C1_ExactlyOnePost ==
    (IsNotify /\ ChannelConfigured) =>
        PostsOf(lastCall.events) = <<Ev("post", SelectedUrl)>>

\* C1, amended: every POST of a statusNotify call goes to the Discord
\* webhook when one is configured and to the LINE endpoint otherwise, never
\* to the other channel; a call issues exactly one POST, except that it
\* issues none when an attachment is given and opening it fails.
C1_Routing ==
    (IsNotify /\ ChannelConfigured) =>
        /\ \A i \in 1 .. Len(lastCall.events) :
              lastCall.events[i].k = "post" =>
                  lastCall.events[i].a = SelectedUrl
        /\ KindCount(lastCall.events, "post") = IF OpenFailed THEN 0 ELSE 1

\* C1 witness: webhook and token are both configured and the call posted
\* to the webhook.
C1_Witness ==
    /\ IsNotify
    /\ Caller.discordWebhook # None
    /\ "line_notify_token" \in Caller.attrs
    /\ PostsOf(lastCall.events) = <<Ev("post", Caller.discordWebhook)>>

\* C2: in each of the four send branches a send that raises ends
\* statusNotify with that exception, and the last thing the call did before
\* it was to log the exception at error level; a call that ends with an
\* exception of the send never lacks that log entry.
C2_LoggedThenRaised ==
    (IsNotify /\ ChannelConfigured) =>
        /\ SendFailed =>
              /\ lastCall.outcome # "returned"
              /\ Len(lastCall.events) > 0
              /\ lastCall.events[Len(lastCall.events)] =
                    Ev("log_error", lastCall.outcome)
        /\ lastCall.outcome # "returned" =>
              /\ SendFailed
              /\ KindCount(lastCall.events, "log_error") = 1

\* C2 witness: a Discord send with an attachment whose POST failed.
C2_Witness ==
    /\ IsNotify
    /\ Caller.discordWebhook # None
    /\ lastCall.args[2] # None
    /\ lastCall.args[3].open
    /\ ~lastCall.args[3].post
    /\ lastCall.outcome = "ConnectionError"

\* C10: a statusNotify call that returned logged the message at info level
\* exactly once, after the POST, when it had no attachment, and logged
\* nothing at info level when it had one.
C10_InfoLog ==
    (IsNotify /\ lastCall.outcome = "returned") =>
        IF lastCall.args[2] = None
        THEN /\ KindCount(lastCall.events, "log_info") = 1
             /\ lastCall.events[Position(lastCall.events, "log_info")].a =
                    lastCall.args[1]
             /\ Position(lastCall.events, "post") > 0
             /\ Position(lastCall.events, "post") <
                    Position(lastCall.events, "log_info")
        ELSE KindCount(lastCall.events, "log_info") = 0

\* C10 witness: a LINE send with an attachment returned.
C10_Witness ==
    /\ IsNotify
    /\ lastCall.outcome = "returned"
    /\ Caller.discordWebhook = None
    /\ lastCall.args[2] # None
    /\ KindCount(lastCall.events, "post") = 1

\* C9: a call of start invokes _run_logic exactly once, first; it logs
\* "Bot started." once, after the hook, exactly when the hook returned; the
\* base class's hook ends it with NotImplementedError.
C9_HookThenStatus ==
    lastCall.op = "start" =>
        /\ KindCount(lastCall.events, "_run_logic") = 1
        /\ lastCall.events[1].k = "_run_logic"
        /\ IF lastCall.args[1] = "returns"
           THEN /\ lastCall.events[2] = Ev("log_info", "Bot started.")
                /\ Len(lastCall.events) = 2
                /\ lastCall.outcome = "returned"
           ELSE /\ KindCount(lastCall.events, "log_info") = 0
                /\ lastCall.outcome # "returned"
        /\ lastCall.args[1] = "base" =>
              lastCall.outcome = "NotImplementedError"

\* C9 witness: a start whose hook returned and that logged the status line.
C9_Witness ==
    /\ lastCall.op = "start"
    /\ lastCall.args[1] = "returns"
    /\ KindCount(lastCall.events, "log_info") = 1

\* The handlers of a given type attached to the logger of instance b.
Sinks(b, type) ==
    SelectSeq(loggers[bot[b].logger].handlers, LAMBDA h : h.type = type)

HasLogger(b) == bot[b].logger \in LoggerNames

\* C5, as claimed: the logger of every initialized instance has exactly one
\* console sink and at most one file sink, and exactly one file sink when
\* the instance's log_dir is truthy.
C5_OneSinkEach ==
    \A b \in Bots : HasLogger(b) =>
        /\ Len(Sinks(b, "StreamHandler")) = 1
        /\ Len(Sinks(b, "RotatingFileHandler")) <= 1
        /\ Truthy(bot[b].log_dir) =>
              Len(Sinks(b, "RotatingFileHandler")) = 1

\* The documented error of each kind of unreadable configuration file:
\* ConfigNotFound is Python's FileNotFoundError, ConfigParseError is the
\* ValueError json.load raises.
DocumentedError(kind) ==
    IF kind = "missing" THEN "FileNotFoundError" ELSE "ValueError"

\* The instances whose constructor raised.
FailedBots == {b \in Bots : bot[b].raised # None}

\* C6: a constructor given a missing path ends with FileNotFoundError, one
\* given invalid JSON with ValueError; before that it printed one
\* diagnostic line to standard error, and the instance has no attribute:
\* no config, no logger, no defaults.
C6_LoadFailure ==
    /\ (lastCall.op = "__init__" /\ lastCall.args[1] # "json") =>
          /\ lastCall.outcome = DocumentedError(lastCall.args[1])
          /\ Caller.raised = lastCall.outcome
          /\ Len(lastCall.events) = 1
          /\ lastCall.events[1].k = "print"
          /\ Len(stderr) > 0
          /\ stderr[Len(stderr)] = lastCall.events[1].a
    /\ \A b \in FailedBots :
          /\ bot[b] = [Blank EXCEPT !.raised = bot[b].raised]
          /\ bot[b].attrs = {}
    /\ Len(stderr) = Cardinality(FailedBots)

\* C6 witness: a constructor given invalid JSON ended with ValueError.
C6_Witness ==
    /\ lastCall.op = "__init__"
    /\ lastCall.args[1] = "invalid"
    /\ lastCall.outcome = "ValueError"
    /\ Len(stderr) > 0

\* The documented default of each optional key.
DocumentedDefault(k) ==
    CASE k = "exchange_name" -> "Exchange"
      [] k = "bot_name" -> "Bot"
      [] k = "log_level" -> "DEBUG"
      [] k = "log_dir" -> "log"

\* C7: on every constructed instance each optional key that is absent from
\* the configuration has its documented default and each one that is
\* present has the configured value; order_history_dir follows log_dir.
C7_Defaults ==
    \A b \in Bots : Ready(b) =>
        /\ \A k \in OptionalKeys :
              bot[b][k] = IF bot[b].config[k] = Absent
                          THEN DocumentedDefault(k)
                          ELSE bot[b].config[k]
        /\ bot[b].order_history_dir =
              IF bot[b].config["log_dir"] = Absent
              THEN DocumentedDefault("log_dir")
              ELSE bot[b].config["log_dir"]

\* C7 witness: an instance built from a configuration that sets log_dir
\* and leaves out the three other optional keys.
C7_Witness ==
    \E b \in Bots :
        /\ Ready(b)
        /\ bot[b].config["log_dir"] = "logs"
        /\ bot[b].config["exchange_name"] = Absent
        /\ bot[b].config["bot_name"] = Absent
        /\ bot[b].config["log_level"] = Absent
        /\ bot[b].log_level = "DEBUG"

\* The days observed at the write_order_history calls of instance b.
DaysObserved(b) ==
    {bot[b].written[i].day : i \in 1 .. Len(bot[b].written)}

\* The rows instance b wrote on a day, in order.
RowsOf(b, day) ==
    LET onDay == SelectSeq(bot[b].written, LAMBDA w : w.day = day)
    IN  [i \in 1 .. Len(onDay) |-> onDay[i].row]

\* {dir}/{exchange}_{bot}_order_history_{yymmdd}.csv
DocumentedPath(b, day) ==
    bot[b].order_history_dir \o "/" \o bot[b].exchange_name \o "_"
        \o bot[b].bot_name \o "_order_history_" \o day \o ".csv"

\* C3: after any sequence of write_order_history calls on the bot instance,
\* the resources constructed and opened are as many as the distinct days
\* observed at the calls, one per day; the files on disk are those of the
\* observed days under their documented names, and each holds, after its
\* header, the rows written on its day, in order.
C3_OneFilePerDay ==
    \A b \in Bots : Ready(b) =>
        /\ Len(bot[b].created) = Cardinality(DaysObserved(b))
        /\ {bot[b].created[i] : i \in 1 .. Len(bot[b].created)} =
              DaysObserved(b)
        /\ DOMAIN bot[b].order_history_files = DaysObserved(b)
        /\ DOMAIN disk = {DocumentedPath(b, day) : day \in DaysObserved(b)}
        /\ \A day \in DaysObserved(b) :
              /\ bot[b].order_history_files[day].path = DocumentedPath(b, day)
              /\ bot[b].order_history_files[day].is_open
              /\ disk[DocumentedPath(b, day)] = <<HeaderRow>> \o RowsOf(b, day)

\* C3 witness: two writes on one day and a third one on the next day left
\* two files.
C3_Witness ==
    \E b \in Bots :
        /\ Len(bot[b].written) = 3
        /\ bot[b].written[1].day = bot[b].written[2].day
        /\ bot[b].written[3].day # bot[b].written[2].day
        /\ Cardinality(DOMAIN disk) = 2
        /\ Len(disk[DocumentedPath(b, bot[b].written[1].day)]) = 3

\* C4: a close_order_history_files call returns, called once or again;
\* after it every registered resource is closed, and it constructed and
\* opened none: it called close() on each registered resource and nothing
\* else.
C4_CloseAll ==
    lastCall.op = "close_order_history_files" =>
        /\ lastCall.outcome = "returned"
        /\ \A day \in DOMAIN Caller.order_history_files :
              ~Caller.order_history_files[day].is_open
        /\ Len(lastCall.events) = Len(Caller.created)
        /\ \A i \in 1 .. Len(lastCall.events) :
              /\ lastCall.events[i].k \in {"close", "close_closed"}
              /\ lastCall.events[i].a =
                    Caller.order_history_files[Caller.created[i]].path

\* C4 witness: a close_order_history_files call that found every one of
\* its two resources closed already.
C4_Witness ==
    /\ lastCall.op = "close_order_history_files"
    /\ Len(lastCall.events) = 2
    /\ \A i \in 1 .. Len(lastCall.events) :
          lastCall.events[i].k = "close_closed"

\* C8, as claimed: a write_order_history call gets an open resource for
\* the day of the call and appends its row to it.
C8_OpenResource ==
    lastCall.op = "write_order_history" =>
        /\ Caller.order_history_files[lastCall.args[1]].is_open
        /\ lastCall.outcome = "returned"

====
